---- MODULE Spec2Model ----
(***************************************************************************)
(* Market-neutral pairs-trading backtest (src/app.py).                     *)
(*                                                                         *)
(* The engine is four functions called in sequence by main():              *)
(*   fetch_data_safe -> calculate_zscore_safe -> generate_signals_safe     *)
(*   -> (position weights) -> run_backtest_safe                            *)
(*                                                                         *)
(* Numbers.  The source computes in binary floating point; the model       *)
(* computes the same expressions exactly:                                  *)
(*   - returns, weights, costs and exposures are fixed-point integers in   *)
(*     units of 1/Scale (one basis point), the inputs being chosen so      *)
(*     that every quotient is exact;                                       *)
(*   - products and sums that outgrow a machine integer (the equity        *)
(*     curve, the covariance sums) are signed big integers;                *)
(*   - a z-score, which involves a square root, is kept as its sign and    *)
(*     its square (a ratio of two integers), which decides every           *)
(*     comparison against a threshold exactly;                             *)
(*   - a missing value (NaN) is an explicit value of each series.          *)
(***************************************************************************)
EXTENDS Integers, Sequences, FiniteSets, TLC

VARIABLES
    pc,               \* position of the run in the pipeline
    tickers,          \* sidebar: <<ticker1, ticker2, benchmark_ticker>>
    dates,            \* sidebar: <<start_date, end_date>>, as day numbers
    histories,        \* fetch_data_safe: the per-ticker price histories
    fetchRaises,      \* fetch_data_safe: the data provider raises
    prices,           \* the price panel: a sequence of rows <<ticker1, ticker2>>
    bench,            \* the benchmark column of the panel
    benchSource,      \* where benchmark returns come from
    window,           \* rolling window of the z-score
    entry_threshold,  \* in tenths (ThresholdScale)
    exit_threshold,   \* in tenths (ThresholdScale)
    tc_bps,           \* transaction cost in basis points
    zscore,           \* the z-score series
    i,                \* generate_signals_safe: loop index (1-based)
    position,         \* generate_signals_safe: the carried state
    signals,          \* generate_signals_safe: the output series so far
    positions,        \* weights per row <<ticker1, ticker2>>, fixed point
    results,          \* what run_backtest_safe returned
    error,            \* the failure message a function returned ("" for None)
    base              \* the previous run of the session, kept for comparison

vars == <<pc, tickers, dates, histories, fetchRaises, prices, bench, benchSource, window,
          entry_threshold, exit_threshold, tc_bps, zscore, i, position,
          signals, positions, results, error, base>>

(***************************************************************************)
(* Bounds of the model and constants of the program.                       *)
(***************************************************************************)
MaxZLen == 4
MaxLen == 4
MaxRows == 3
HeadLen == 2

Scale == 10000
ThresholdScale == 10
MinRows == 100
MinCommon == 20
TradingDaysPerYear == 252
HalfWeight == 5000

\* the sidebar as it is first drawn; dates are day numbers
DefaultTickers == <<"AAPL", "MSFT", "SPY">>

DefaultDates == <<1, 2>>

(***************************************************************************)
(* Exact integers of any size: a magnitude is a sequence of digits in base *)
(* Scale, least significant first, without leading zeros.                  *)
(***************************************************************************)
Abs(x) == IF x < 0 THEN -x ELSE x

Sign(x) == IF x > 0 THEN 1 ELSE IF x < 0 THEN -1 ELSE 0

RECURSIVE MagTrim(_)
MagTrim(a) ==
    IF a = <<>> THEN <<>>
    ELSE IF a[Len(a)] = 0 THEN MagTrim(SubSeq(a, 1, Len(a) - 1)) ELSE a

RECURSIVE MagOfNat(_)
MagOfNat(k) == IF k = 0 THEN <<>> ELSE <<k % Scale>> \o MagOfNat(k \div Scale)

\* (a value used twice is bound over a singleton set, so that it is computed once)
RECURSIVE MagAddC(_, _, _)
MagAddC(a, b, c) ==
    IF a = <<>> /\ b = <<>> THEN (IF c = 0 THEN <<>> ELSE <<c>>)
    ELSE CHOOSE r \in
            {<<s % Scale>> \o MagAddC(IF a = <<>> THEN <<>> ELSE Tail(a),
                                      IF b = <<>> THEN <<>> ELSE Tail(b),
                                      s \div Scale) :
                s \in {(IF a = <<>> THEN 0 ELSE Head(a))
                        + (IF b = <<>> THEN 0 ELSE Head(b)) + c}} : TRUE

MagAdd(a, b) == MagAddC(a, b, 0)

RECURSIVE MagSubB(_, _, _)
MagSubB(a, b, w) ==
    IF a = <<>> THEN <<>>
    ELSE CHOOSE r \in
            {IF d < 0 THEN <<d + Scale>> \o MagSubB(Tail(a), IF b = <<>> THEN <<>> ELSE Tail(b), 1)
                      ELSE <<d>> \o MagSubB(Tail(a), IF b = <<>> THEN <<>> ELSE Tail(b), 0) :
                d \in {Head(a) - (IF b = <<>> THEN 0 ELSE Head(b)) - w}} : TRUE

\* a - b for a >= b
MagSub(a, b) == MagTrim(MagSubB(a, b, 0))

RECURSIVE MagCmp(_, _)
MagCmp(a, b) ==
    IF Len(a) # Len(b) THEN (IF Len(a) < Len(b) THEN -1 ELSE 1)
    ELSE IF a = <<>> THEN 0
    ELSE LET n == Len(a)
         IN IF a[n] # b[n] THEN (IF a[n] < b[n] THEN -1 ELSE 1)
            ELSE MagCmp(SubSeq(a, 1, n - 1), SubSeq(b, 1, n - 1))

RECURSIVE MagMulDigit(_, _, _)
MagMulDigit(a, d, c) ==
    IF a = <<>> THEN (IF c = 0 THEN <<>> ELSE <<c>>)
    ELSE CHOOSE r \in
            {<<p % Scale>> \o MagMulDigit(Tail(a), d, p \div Scale) :
                p \in {Head(a) * d + c}} : TRUE

RECURSIVE MagMul(_, _)
MagMul(a, b) ==
    IF a = <<>> \/ b = <<>> THEN <<>>
    ELSE MagAdd(MagMulDigit(a, Head(b), 0), MagTrim(<<0>> \o MagMul(a, Tail(b))))

Big(neg, mag) == [neg |-> neg /\ mag # <<>>, mag |-> mag]

BigOfInt(k) == Big(k < 0, MagOfNat(Abs(k)))

BigZero == BigOfInt(0)

BigOne == BigOfInt(1)

BigNeg(a) == Big(~a.neg, a.mag)

BigAdd(a, b) ==
    IF a.neg = b.neg THEN Big(a.neg, MagAdd(a.mag, b.mag))
    ELSE IF MagCmp(a.mag, b.mag) >= 0 THEN Big(a.neg, MagSub(a.mag, b.mag))
    ELSE Big(b.neg, MagSub(b.mag, a.mag))

BigSub(a, b) == BigAdd(a, BigNeg(b))

BigMul(a, b) == Big(a.neg # b.neg, MagMul(a.mag, b.mag))

BigSign(a) == IF a.mag = <<>> THEN 0 ELSE IF a.neg THEN -1 ELSE 1

BigLess(a, b) == BigSign(BigSub(a, b)) < 0

RECURSIVE BigSum(_)
BigSum(s) == IF s = <<>> THEN BigZero ELSE BigAdd(Head(s), BigSum(Tail(s)))

RECURSIVE SumSeq(_)
SumSeq(s) == IF s = <<>> THEN 0 ELSE Head(s) + SumSeq(Tail(s))

(***************************************************************************)
(* Values with a square root (a z-score, a correlation): the value is      *)
(* sgn * sqrt(num2 / den2), or missing.                                    *)
(***************************************************************************)
NaN == [nan |-> TRUE, sgn |-> 0, num2 |-> 0, den2 |-> 1]

Root(sgn, num2, den2) == [nan |-> FALSE, sgn |-> sgn, num2 |-> num2, den2 |-> den2]

\* the literal t / ThresholdScale, e.g. 20 for 2.0
Tenths(t) == Root(Sign(t), t * t, ThresholdScale * ThresholdScale)

IsNa(z) == z.nan

\* z > th / ThresholdScale, for th >= 0
ZGreater(z, th) ==
    z.sgn > 0 /\ z.num2 * ThresholdScale * ThresholdScale > th * th * z.den2

\* z < -th / ThresholdScale, for th >= 0
ZLessNeg(z, th) ==
    z.sgn < 0 /\ z.num2 * ThresholdScale * ThresholdScale > th * th * z.den2

\* abs(z) < th / ThresholdScale, for th >= 0
ZAbsLess(z, th) ==
    z.num2 * ThresholdScale * ThresholdScale < th * th * z.den2

(***************************************************************************)
(* generate_signals_safe: one left-to-right scan carrying `position`.      *)
(* States: 0 Flat, 1 LongSpread, -1 ShortSpread.                           *)
(***************************************************************************)
Flat == 0

\* the carried state after the loop body has run on z
NextPositionResetOnMissing(pos, z, entry, exit) ==
    IF IsNa(z) THEN 0
    ELSE IF pos = 0 THEN
        IF ZGreater(z, entry) THEN -1 ELSE IF ZLessNeg(z, entry) THEN 1 ELSE 0
    ELSE IF ZAbsLess(z, exit) THEN 0 ELSE pos

NextPositionReEnter(pos, z, entry, exit) ==
    IF IsNa(z) THEN pos
    ELSE IF ZGreater(z, entry) THEN -1
    ELSE IF ZLessNeg(z, entry) THEN 1
    ELSE IF pos # 0 /\ ZAbsLess(z, exit) THEN 0 ELSE pos

NextPositionSignFlipped(pos, z, entry, exit) ==
    IF IsNa(z) THEN pos
    ELSE IF pos = 0 THEN
        IF ZGreater(z, entry) THEN 1 ELSE IF ZLessNeg(z, entry) THEN -1 ELSE 0
    ELSE IF ZAbsLess(z, exit) THEN 0 ELSE pos

NextPosition(pos, z, entry, exit) ==
    IF IsNa(z) THEN pos
    ELSE IF pos = 0 THEN
        IF ZGreater(z, entry) THEN -1 ELSE IF ZLessNeg(z, entry) THEN 1 ELSE 0
    ELSE IF ZAbsLess(z, exit) THEN 0 ELSE pos

\* what the loop body writes to signals.iloc[i]
SignalAt(posAfter, z) == IF IsNa(z) THEN 0 ELSE posAfter

\* the whole scan, as a function of the z-score series
RECURSIVE ScanFrom(_, _, _, _)
ScanFrom(pos, zs, entry, exit) ==
    IF zs = <<>> THEN <<>>
    ELSE LET p == NextPosition(pos, Head(zs), entry, exit)
         IN <<SignalAt(p, Head(zs))>> \o ScanFrom(p, Tail(zs), entry, exit)

generate_signals_safe(zs, entry, exit) == ScanFrom(Flat, zs, entry, exit)

\* one iteration of `for i, z in enumerate(zscore)`
SignalStep ==
    /\ pc = "signals"
    /\ i <= Len(zscore)
    /\ LET z == zscore[i]
           p == NextPosition(position, z, entry_threshold, exit_threshold)
       IN /\ position' = p
          /\ signals' = Append(signals, SignalAt(p, z))
    /\ i' = i + 1
    /\ UNCHANGED <<pc, tickers, dates, histories, fetchRaises, prices, bench, benchSource, window,
                   entry_threshold, exit_threshold, tc_bps, zscore, positions,
                   results, error, base>>

\* `return signals, None`
SignalsReturn ==
    /\ pc = "signals"
    /\ i > Len(zscore)
    /\ pc' = "positions"
    /\ error' = ""
    /\ UNCHANGED <<tickers, dates, histories, fetchRaises, prices, bench, benchSource, window,
                   entry_threshold, exit_threshold, tc_bps, zscore, i, position,
                   signals, positions, results, base>>

(***************************************************************************)
(* calculate_zscore_safe.  A price row is <<ticker1, ticker2>>, positive   *)
(* integers.  ratio = ticker1 / ticker2 is kept as that pair; the rolling  *)
(* mean and standard deviation over the trailing `window` rows are taken   *)
(* over the window's common denominator:                                   *)
(*   R_j = ratio_j * D,  S = sum R_j,  Q = sum R_j^2,                      *)
(*   ratio_t - mean = (w R_t - S) / (w D),                                 *)
(*   std^2 (ddof = 1) = (w Q - S^2) / (w (w - 1) D^2),                     *)
(*   z^2 = (w R_t - S)^2 (w - 1) / (w (w Q - S^2)).                        *)
(***************************************************************************)
RECURSIVE ProdDen(_)
ProdDen(rows) == IF rows = <<>> THEN 1 ELSE Head(rows)[2] * ProdDen(Tail(rows))

\* the window's ratios over their common denominator
Scaled(rows) == [j \in 1..Len(rows) |-> (rows[j][1] * ProdDen(rows)) \div rows[j][2]]

Squares(s) == [j \in 1..Len(s) |-> s[j] * s[j]]

\* rolling(window, min_periods).mean()/.std() and the z-score, at row t
ZscoreAtMin(rows, w, minPeriods, t) ==
    IF t < minPeriods THEN NaN
    ELSE LET lo == IF t - w + 1 < 1 THEN 1 ELSE t - w + 1
             R == Scaled(SubSeq(rows, lo, t))
             k == Len(R)
             S == SumSeq(R)
             Q == SumSeq(Squares(R))
             N == k * R[k] - S
             V == k * Q - S * S
         IN \* std is missing for one observation, and a zero std is replaced by NaN
            IF k < 2 \/ V = 0 THEN NaN
            ELSE Root(Sign(N), N * N * (k - 1), k * V)

ZscoreAtPartialWindow(rows, w, t) == ZscoreAtMin(rows, w, 1, t)

ZscoreAtLookAhead(rows, w, t) ==
    ZscoreAtMin(rows, w, w, IF t < Len(rows) THEN t + 1 ELSE t)

ZscoreAt(rows, w, t) == ZscoreAtMin(rows, w, w, t)

\* (ratio == 0).any() or ratio.isnull().all(); all() of an empty series is True
InvalidRatio(rows) ==
    \/ \E t \in 1..Len(rows) : rows[t][1] = 0
    \/ rows = <<>>

calculate_zscore_safe(rows, w) ==
    IF InvalidRatio(rows)
    THEN [error |-> "Invalid price ratio detected", zscore |-> <<>>]
    ELSE [error |-> "", zscore |-> [t \in 1..Len(rows) |-> ZscoreAt(rows, w, t)]]

\* main: zscore, error = calculate_zscore_safe(...); then generate_signals_safe starts
CalculateZscore ==
    /\ pc = "zscore"
    /\ \E r \in {calculate_zscore_safe(prices, window)} :
          /\ error' = r.error
          /\ zscore' = r.zscore
          /\ pc' = IF r.error # "" THEN "failed" ELSE "signals"
    /\ i' = 1
    /\ position' = Flat
    /\ signals' = <<>>
    /\ UNCHANGED <<tickers, dates, histories, fetchRaises, prices, bench, benchSource, window,
                   entry_threshold, exit_threshold, tc_bps, positions, results, base>>

(***************************************************************************)
(* main, "Create positions": ticker1 = signals * 0.5, ticker2 = -signals * *)
(* 0.5, as fixed-point weights (HalfWeight is 0.5).                        *)
(***************************************************************************)
WeightsSameSign(sig) == <<sig * HalfWeight, sig * HalfWeight>>

Weights(sig) == <<sig * HalfWeight, (-sig) * HalfWeight>>

BuildPositions ==
    /\ pc = "positions"
    /\ positions' = [t \in 1..Len(signals) |-> Weights(signals[t])]
    /\ pc' = "backtest"
    /\ UNCHANGED <<tickers, dates, histories, fetchRaises, prices, bench, benchSource, window,
                   entry_threshold, exit_threshold, tc_bps, zscore, i, position,
                   signals, results, error, base>>

(***************************************************************************)
(* Series with missing entries: an entry is <<x>> or Missing.  A series    *)
(* is indexed by row number (the panel's dates in order).                  *)
(***************************************************************************)
Missing == <<>>

Val(x) == <<x>>

Column(rows, k) == [t \in 1..Len(rows) |-> rows[t][k]]

\* Series.pct_change(): missing at the first row
PctChange(col) ==
    [t \in 1..Len(col) |->
        IF t = 1 THEN Missing ELSE Val(((col[t] - col[t - 1]) * Scale) \div col[t - 1])]

\* DataFrame.shift(1) of the weights
Shift(pos) ==
    [t \in 1..Len(pos) |->
        IF t = 1 THEN <<Missing, Missing>> ELSE <<Val(pos[t - 1][1]), Val(pos[t - 1][2])>>]

\* DataFrame.diff().abs() of the weights
DiffAbs(pos) ==
    [t \in 1..Len(pos) |->
        IF t = 1 THEN <<Missing, Missing>>
        ELSE <<Val(Abs(pos[t][1] - pos[t - 1][1])), Val(Abs(pos[t][2] - pos[t - 1][2]))>>]

\* fixed-point product of two entries
OptMul(a, b) ==
    IF a = Missing \/ b = Missing THEN Missing ELSE Val((a[1] * b[1]) \div Scale)

OptSub(a, b) ==
    IF a = Missing \/ b = Missing THEN Missing ELSE Val(a[1] - b[1])

\* DataFrame.sum(axis=1): missing entries are skipped, an all-missing row sums to 0
RowSumPropagate(row) ==
    IF row[1] = Missing \/ row[2] = Missing THEN Missing ELSE Val(row[1][1] + row[2][1])

RowSum(row) ==
    Val((IF row[1] = Missing THEN 0 ELSE row[1][1]) + (IF row[2] = Missing THEN 0 ELSE row[2][1]))

\* turnover * (tc_bps / 10000)
CostOfDefaultRate(turn, bps) ==
    IF turn = Missing THEN Missing ELSE Val((turn[1] * 10) \div Scale)

CostOf(turn, bps) ==
    IF turn = Missing THEN Missing ELSE Val((turn[1] * bps) \div Scale)

\* (1 + net_returns).cumprod(): entry t is the numerator of the product over
\* the denominator Scale^(number of entries multiplied so far)
RECURSIVE CumProdFrom(_, _)
CumProdFrom(acc, s) ==
    IF s = <<>> THEN <<>>
    ELSE IF Head(s) = Missing THEN <<Missing>> \o CumProdFrom(acc, Tail(s))
    ELSE CHOOSE r \in
            {<<Val(a)>> \o CumProdFrom(a, Tail(s)) :
                a \in {BigMul(acc, BigOfInt(Scale + Head(s)[1]))}} : TRUE

CumProd(s) == CumProdFrom(BigOne, s)

\* Series.dropna(): the rows that have a value
Dropna(s) == {t \in 1..Len(s) : s[t] # Missing}

(***************************************************************************)
(* run_backtest_safe, "Market beta": covariance, variances over the dates  *)
(* common to the clean returns and the benchmark returns.  With m common   *)
(* dates, cov = C / (m (m - 1)) and var = V / (m (m - 1)) where            *)
(* C = m Sxy - Sx Sy and V = m Syy - Sy^2, so beta = C / V.                *)
(***************************************************************************)
BetaDefault == [num |-> BigZero, den |-> BigOne]

CorrelationDefault == [nan |-> FALSE, sgn |-> 0, num2 |-> BigZero, den2 |-> BigOne]

Dates(common, n) == SelectSeq([t \in 1..n |-> t], LAMBDA t : t \in common)

BigProducts(x, y) == [k \in 1..Len(x) |-> BigMul(x[k], y[k])]

CoMoment(x, y) ==
    BigSub(BigMul(BigOfInt(Len(x)), BigSum(BigProducts(x, y))),
           BigMul(BigSum(x), BigSum(y)))

MinCommonDatesInclusive(m) == m >= MinCommon

MinCommonDates(m) == m > MinCommon

BetaBlock(net, benchCol, source) ==
    IF source # "panel"
    THEN \* the download came back empty, or raised: `except: pass`
         [beta |-> BetaDefault, correlation |-> CorrelationDefault, common |-> 0]
    ELSE LET br == PctChange(benchCol)
             common == Dropna(net) \cap Dropna(br)
             m == Cardinality(common)
             d == Dates(common, Len(net))
             x == [k \in 1..m |-> BigOfInt(net[d[k]][1])]
             y == [k \in 1..m |-> BigOfInt(br[d[k]][1])]
             C == CoMoment(x, y)
             VX == CoMoment(x, x)
             VY == CoMoment(y, y)
         IN IF MinCommonDates(m)
            THEN [beta |-> IF BigSign(VY) > 0 THEN [num |-> C, den |-> VY]
                                              ELSE BetaDefault,
                  correlation |->
                      IF BigSign(VX) = 0 \/ BigSign(VY) = 0
                      THEN [nan |-> TRUE, sgn |-> 0, num2 |-> BigZero, den2 |-> BigOne]
                      ELSE [nan |-> FALSE, sgn |-> BigSign(C), num2 |-> BigMul(C, C),
                            den2 |-> BigMul(VX, VY)],
                  common |-> m]
            ELSE [beta |-> BetaDefault, correlation |-> CorrelationDefault,
                  common |-> m]

(***************************************************************************)
(* Defaults for the parts of the state a run has not produced yet.         *)
(***************************************************************************)
NoResults ==
    [returns |-> <<>>, equity_curve |-> <<>>, turnover |-> <<>>,
     transaction_costs |-> <<>>, gross_exposure |-> <<>>, net_exposure |-> <<>>,
     trading_days |-> 0, common |-> 0,
     beta |-> BetaDefault, correlation |-> CorrelationDefault]

NoBase == [kind |-> "none", at |-> 0, signals |-> <<>>, results |-> NoResults,
           error |-> ""]

(***************************************************************************)
(* run_backtest_safe(prices, positions, ticker1, ticker2, tc_bps,          *)
(* benchmark).  The metrics that need a root or a power (CAGR, volatility, *)
(* Sharpe) and the display rounding are not part of the model.             *)
(***************************************************************************)
\* years as a whole number of years
YearsWhole(trading_days) == [num |-> trading_days \div TradingDaysPerYear, den |-> 1]

\* years = trading_days / 252
Years(trading_days) == [num |-> trading_days, den |-> TradingDaysPerYear]

\* "Calculate returns" .. "Exposures": the series the metrics are computed from
Accounts(rows, pos, bps) ==
    LET n == Len(rows)
        pr1 == PctChange(Column(rows, 1))
        pr2 == PctChange(Column(rows, 2))
        sh == Shift(pos)
        strategy == [t \in 1..n |->
                        RowSum(<<OptMul(sh[t][1], pr1[t]), OptMul(sh[t][2], pr2[t])>>)]
        changes == DiffAbs(pos)
        turnover == [t \in 1..n |-> RowSum(changes[t])]
        costs == [t \in 1..n |-> CostOf(turnover[t], bps)]
    IN [turnover |-> turnover,
        transaction_costs |-> costs,
        net_returns |-> [t \in 1..n |-> OptSub(strategy[t], costs[t])],
        gross_exposure |->
            [t \in 1..n |-> RowSum(<<Val(Abs(pos[t][1])), Val(Abs(pos[t][2]))>>)],
        net_exposure |-> [t \in 1..n |-> RowSum(<<Val(pos[t][1]), Val(pos[t][2])>>)]]

\* trading_days = len(net_returns.dropna())
TradingDays(rows, pos, bps) == Cardinality(Dropna(Accounts(rows, pos, bps).net_returns))

run_backtest_safe(rows, pos, bps, benchCol, source) ==
    LET a == Accounts(rows, pos, bps)
        net == a.net_returns
        days == Cardinality(Dropna(net))
        b == BetaBlock(net, benchCol, source)
    IN IF days = 0
       THEN [error |-> "No valid returns generated", results |-> NoResults]
       ELSE IF Years(days).num = 0
       THEN [error |-> "Insufficient data for annualization", results |-> NoResults]
       ELSE [error |-> "",
             results |->
                [returns |-> net, equity_curve |-> CumProd(net),
                 turnover |-> a.turnover,
                 transaction_costs |-> a.transaction_costs,
                 gross_exposure |-> a.gross_exposure,
                 net_exposure |-> a.net_exposure, trading_days |-> days,
                 common |-> b.common,
                 beta |-> b.beta, correlation |-> b.correlation]]

\* main, "Step 3: Run backtest"
RunBacktest ==
    /\ pc = "backtest"
    /\ \E r \in {run_backtest_safe(prices, positions, tc_bps, bench, benchSource)} :
          /\ error' = r.error
          /\ results' = r.results
          /\ pc' = IF r.error # "" THEN "failed" ELSE "done"
    /\ UNCHANGED <<tickers, dates, histories, fetchRaises, prices, bench, benchSource, window,
                   entry_threshold, exit_threshold, tc_bps, zscore, i, position,
                   signals, positions, base>>

(***************************************************************************)
(* A second run of the same session, for the properties that compare two   *)
(* runs: the panel with ticker1's price changed in one row (a price        *)
(* shock), or the                                                          *)
(* same positions priced at twice the transaction cost.                    *)
(***************************************************************************)
P1 == {1, 2}

P2 == {1, 4}

PriceRows == P1 \X P2

Snapshot(kind, at) ==
    [kind |-> kind, at |-> at, signals |-> signals, results |-> results,
     error |-> error]

Shock ==
    /\ pc \in {"done", "failed"}
    /\ base.kind = "none"
    /\ \E t \in 1..Len(prices) : \E p \in P1 \ {prices[t][1]} :
          /\ prices' = [prices EXCEPT ![t] = <<p, prices[t][2]>>]
          /\ base' = Snapshot("shock", t)
    /\ pc' = "zscore"
    /\ zscore' = <<>>
    /\ i' = 1
    /\ position' = Flat
    /\ signals' = <<>>
    /\ positions' = <<>>
    /\ results' = NoResults
    /\ error' = ""
    /\ UNCHANGED <<tickers, dates, histories, fetchRaises, bench, benchSource, window,
                   entry_threshold, exit_threshold, tc_bps>>

DoubleCost ==
    /\ pc \in {"done", "failed"}
    /\ base.kind = "none"
    /\ base' = Snapshot("cost", 0)
    /\ tc_bps' = 2 * tc_bps
    /\ pc' = "backtest"
    /\ results' = NoResults
    /\ error' = ""
    /\ UNCHANGED <<tickers, dates, histories, fetchRaises, prices, bench, benchSource, window,
                   entry_threshold, exit_threshold, zscore, i, position, signals,
                   positions>>

(***************************************************************************)
(* Spec: the pipeline of main() from calculate_zscore_safe on, over every  *)
(* small panel, then once more with a price shock.                         *)
(***************************************************************************)
Panels(maxLen) == UNION {[1..n -> PriceRows] : n \in 0..maxLen}

Flatline(n) == [t \in 1..n |-> 1]

Windows == {2, 3}

\* <<entry, exit>> in tenths
PipelineThresholds == {<<10, 5>>, <<5, 2>>}

DefaultCost == 10

Init ==
    /\ pc = "zscore"
    /\ prices \in Panels(MaxLen)
    /\ bench = Flatline(Len(prices))
    /\ benchSource = "panel"
    /\ window \in Windows
    /\ \E th \in PipelineThresholds : entry_threshold = th[1] /\ exit_threshold = th[2]
    /\ tc_bps = DefaultCost
    /\ zscore = <<>>
    /\ i = 1
    /\ position = Flat
    /\ signals = <<>>
    /\ positions = <<>>
    /\ results = NoResults
    /\ error = ""
    /\ base = NoBase
    /\ histories = <<>>
    /\ fetchRaises = FALSE
    /\ tickers = DefaultTickers
    /\ dates = DefaultDates

Next ==
    \/ CalculateZscore
    \/ SignalStep
    \/ SignalsReturn
    \/ BuildPositions
    \/ RunBacktest
    \/ Shock

Spec == Init /\ [][Next]_vars

(***************************************************************************)
(* SpecBacktest: run_backtest_safe applied to every small panel and every  *)
(* signal path, then once more at twice the cost.                          *)
(***************************************************************************)
SignalValues == {-1, 0, 1}

InitBacktest ==
    /\ pc = "positions"
    /\ \E n \in 0..MaxRows :
          /\ prices \in [1..n -> PriceRows]
          /\ signals \in [1..n -> SignalValues]
          /\ bench = Flatline(n)
    /\ benchSource = "panel"
    /\ tc_bps = DefaultCost
    /\ window = 0
    /\ entry_threshold = 0
    /\ exit_threshold = 0
    /\ zscore = <<>>
    /\ i = 1
    /\ position = Flat
    /\ positions = <<>>
    /\ results = NoResults
    /\ error = ""
    /\ base = NoBase
    /\ histories = <<>>
    /\ fetchRaises = FALSE
    /\ tickers = DefaultTickers
    /\ dates = DefaultDates

NextBacktest == BuildPositions \/ RunBacktest \/ DoubleCost

SpecBacktest == InitBacktest /\ [][NextBacktest]_vars

(***************************************************************************)
(* SpecBeta: run_backtest_safe on panels long enough for the benchmark     *)
(* statistics: a free head of HeadLen rows, then the last row repeated     *)
(* (prices flat, signal held) up to 20, 21 or 22 rows.                     *)
(***************************************************************************)
Pad(s, n) == [t \in 1..n |-> IF t <= Len(s) THEN s[t] ELSE s[Len(s)]]

BenchPrices == {1, 2}

BetaSignals == {0, 1}

\* ticker2 is flat on these panels
BetaRows == P1 \X {1}

BenchSources == {"panel", "download_empty", "download_raises"}

InitBeta ==
    /\ pc = "positions"
    /\ \E n \in MinCommon..(MinCommon + 2) :
          /\ \E h \in [1..HeadLen -> BetaRows] : prices = Pad(h, n)
          /\ \E h \in [1..HeadLen -> BetaSignals] : signals = Pad(h, n)
          /\ \E h \in [1..HeadLen -> BenchPrices] : bench = Pad(h, n)
    /\ benchSource \in BenchSources
    /\ tc_bps = DefaultCost
    /\ window = 0
    /\ entry_threshold = 0
    /\ exit_threshold = 0
    /\ zscore = <<>>
    /\ i = 1
    /\ position = Flat
    /\ positions = <<>>
    /\ results = NoResults
    /\ error = ""
    /\ base = NoBase
    /\ histories = <<>>
    /\ fetchRaises = FALSE
    /\ tickers = DefaultTickers
    /\ dates = DefaultDates

NextBeta == BuildPositions \/ RunBacktest

SpecBeta == InitBeta /\ [][NextBeta]_vars

(***************************************************************************)
(* fetch_data_safe.  A history is the dates first..last of one ticker      *)
(* (empty when last < first), a constant Close, and at most one date       *)
(* (`gap`, 0 for none) whose Close is missing.  pd.DataFrame({...}) aligns *)
(* the histories on the union of their dates and dropna() keeps the dates  *)
(* on which every ticker has a Close.                                      *)
(***************************************************************************)
HistoryLen(h) == IF h.last < h.first THEN 0 ELSE h.last - h.first + 1

HasClose(h, d) == h.first <= d /\ d <= h.last /\ d # h.gap

AlignedDates(hs) ==
    {d \in UNION {h.first..h.last : h \in {hs[k] : k \in 1..Len(hs)}} :
        \A k \in 1..Len(hs) : HasClose(hs[k], d)}

EnoughRowsStrict(m) == m > MinRows

EnoughRows(m) == m >= MinRows

fetch_data_safe(hs, raises) ==
    IF raises
    THEN [error |-> "Data fetch error", rows |-> 0]
    ELSE IF ~(\A k \in 1..Len(hs) : HistoryLen(hs[k]) > 0)
    THEN [error |-> "No data returned. Please check tickers and date range.",
          rows |-> 0]
    ELSE LET m == Cardinality(AlignedDates(hs))
         IN IF ~EnoughRows(m)
            THEN [error |-> "Insufficient data", rows |-> m]
            ELSE [error |-> "", rows |-> m]

\* main, "Step 1: Fetch data"; tickers = [ticker1, ticker2, benchmark_ticker]
FetchData ==
    /\ pc = "fetch"
    /\ \E r \in {fetch_data_safe(histories, fetchRaises)} :
          /\ error' = r.error
          /\ pc' = IF r.error # "" THEN "failed" ELSE "zscore"
          /\ prices' = IF r.error # "" THEN <<>>
                       ELSE [t \in 1..r.rows |-> <<histories[1].close, histories[2].close>>]
          /\ bench' = IF r.error # "" THEN <<>>
                      ELSE [t \in 1..r.rows |-> histories[3].close]
    /\ UNCHANGED <<tickers, dates, histories, fetchRaises, benchSource, window, entry_threshold,
                   exit_threshold, tc_bps, zscore, i, position, signals, positions,
                   results, base>>

Firsts == {1, 2, MinRows \div 2 + 1}

Lasts == {0, MinRows \div 2, MinRows - 1, MinRows, MinRows + 1}

Gaps == {0, MinRows \div 2}

Histories(gaps) ==
    [first : Firsts, last : Lasts, gap : gaps, close : {1}]

InitFetch ==
    /\ pc = "fetch"
    /\ \E h1 \in Histories(Gaps) : \E h2 \in Histories({0}) :
          \E h3 \in {h \in Histories({0}) : h.first = 1 /\ h.last \in {0, MinRows + 1}} :
             histories = <<h1, h2, h3>>
    /\ fetchRaises \in BOOLEAN
    /\ tickers = DefaultTickers
    /\ dates = DefaultDates
    /\ prices = <<>>
    /\ bench = <<>>
    /\ benchSource = "panel"
    /\ window = 0
    /\ entry_threshold = 0
    /\ exit_threshold = 0
    /\ tc_bps = DefaultCost
    /\ zscore = <<>>
    /\ i = 1
    /\ position = Flat
    /\ signals = <<>>
    /\ positions = <<>>
    /\ results = NoResults
    /\ error = ""
    /\ base = NoBase

NextFetch == FetchData

SpecFetch == InitFetch /\ [][NextFetch]_vars

(***************************************************************************)
(* SpecMain: main() from the click on "Run Backtest" to the end of "Step 2: *)
(* Generate signals": the sidebar values as the widgets allow them, the    *)
(* validation block, the fetch, the z-score, the scan and the weights.     *)
(* Thresholds are in tenths, the step of their sliders.                    *)
(***************************************************************************)
\* st.sidebar.slider("Z-Score Window", 20, 120, 60, 10)
WindowSlider == {20 + 10 * k : k \in 0..10}

\* st.sidebar.slider("Entry Threshold", 1.0, 3.0, 1.5, 0.1)
EntrySlider == 10..30

\* st.sidebar.slider("Exit Threshold", 0.0, 1.0, 0.5, 0.1)
ExitSlider == 0..10

\* the "Validation" block: the message of st.error, "" when it passes
Validation(tk, ds) ==
    IF tk[1] = "" \/ tk[2] = "" THEN "Please enter valid tickers"
    ELSE IF tk[1] = tk[2] THEN "Tickers must be different"
    ELSE IF ds[1] >= ds[2] THEN "Start date must be before end date"
    ELSE ""

\* `if run_button:` up to "Step 1"
Validate ==
    /\ pc = "button"
    /\ \E msg \in {Validation(tickers, dates)} :
          /\ error' = msg
          /\ pc' = IF msg # "" THEN "rejected" ELSE "fetch"
    /\ UNCHANGED <<tickers, dates, histories, fetchRaises, prices, bench, benchSource,
                   window, entry_threshold, exit_threshold, tc_bps, zscore, i,
                   position, signals, positions, results, base>>

TickerInputs == {"", "AAPL", "MSFT"}

DateInputs == {<<1, 2>>, <<2, 2>>, <<2, 1>>}

MainWindows == {w \in WindowSlider : w = 20 \/ w = 120}

InitMain ==
    /\ pc = "button"
    /\ \E t1 \in TickerInputs : \E t2 \in TickerInputs : tickers = <<t1, t2, "SPY">>
    /\ dates \in DateInputs
    /\ window \in MainWindows
    /\ entry_threshold \in EntrySlider
    /\ exit_threshold \in ExitSlider
    /\ tc_bps = DefaultCost
    /\ \E h \in {h \in Histories({0}) : h.first = 1 /\ h.last \in {0, MinRows}} :
          histories = <<h, h, h>>
    /\ fetchRaises = FALSE
    /\ prices = <<>>
    /\ bench = <<>>
    /\ benchSource = "panel"
    /\ zscore = <<>>
    /\ i = 1
    /\ position = Flat
    /\ signals = <<>>
    /\ positions = <<>>
    /\ results = NoResults
    /\ error = ""
    /\ base = NoBase

NextMain ==
    \/ Validate
    \/ FetchData
    \/ CalculateZscore
    \/ SignalStep
    \/ SignalsReturn
    \/ BuildPositions

SpecMain == InitMain /\ [][NextMain]_vars

(***************************************************************************)
(* SpecSignals: generate_signals_safe applied to z-score series given      *)
(* directly (its unit-test interface).                                     *)
(***************************************************************************)
ZTenths == {0, 3, 5, 15, 20, -20}

ZValues == {NaN} \cup {Tenths(t) : t \in ZTenths}

ZSeqs == UNION {[1..n -> ZValues] : n \in 0..MaxZLen}

\* <<entry, exit>> in tenths; <<15, 5>> are the defaults
SignalThresholds == {<<15, 5>>, <<5, 3>>}

InitSignals ==
    /\ pc = "signals"
    /\ zscore \in ZSeqs
    /\ \E th \in SignalThresholds : entry_threshold = th[1] /\ exit_threshold = th[2]
    /\ i = 1
    /\ position = Flat
    /\ signals = <<>>
    /\ histories = <<>>
    /\ fetchRaises = FALSE
    /\ tickers = DefaultTickers
    /\ dates = DefaultDates
    /\ prices = <<>>
    /\ bench = <<>>
    /\ benchSource = "panel"
    /\ window = 0
    /\ tc_bps = 0
    /\ positions = <<>>
    /\ results = NoResults
    /\ error = ""
    /\ base = NoBase

NextSignals == SignalStep \/ SignalsReturn

SpecSignals == InitSignals /\ [][NextSignals]_vars
(***************************************************************************)
(* Properties.                                                             *)
(***************************************************************************)
LoopBody == pc = "signals" /\ i <= Len(zscore) /\ i' = i + 1

\* a literal z-score of SpecSignals, read back in tenths
LiteralOf(z) == CHOOSE t \in ZTenths : Tenths(t) = z

\* C1: generate_signals_safe starts Flat; on a non-missing z, Flat becomes
\* ShortSpread if z > entry, LongSpread if z < -entry, else stays Flat; a
\* position becomes Flat if |z| < exit and is otherwise held; the output at t
\* is the carried state after the step; so the carried state never changes
\* directly between LongSpread and ShortSpread.
C1_TransitionFunction ==
    /\ [](pc = "signals" /\ i = 1 => position = Flat)
    /\ [][(LoopBody /\ ~IsNa(zscore[i])) =>
            LET z == LiteralOf(zscore[i])
            IN /\ position' = (IF position = Flat
                               THEN (IF z > entry_threshold THEN -1
                                     ELSE IF z < -entry_threshold THEN 1
                                     ELSE Flat)
                               ELSE (IF Abs(z) < exit_threshold THEN Flat
                                     ELSE position))
               /\ signals'[i] = position']_vars
    /\ [][~(position = 1 /\ position' = -1) /\ ~(position = -1 /\ position' = 1)]_vars

\* C1 witness: a scan that went ShortSpread, Flat, LongSpread on non-missing z
C1_Witness ==
    /\ pc = "positions"
    /\ \E j \in 1..(Len(signals) - 2) :
          /\ signals[j] = -1 /\ signals[j + 1] = Flat /\ signals[j + 2] = 1
          /\ \A k \in j..(j + 2) : ~IsNa(zscore[k])

C2_Fixture == <<Tenths(0), Tenths(20), Tenths(3), Tenths(0)>>

C2_Case ==
    /\ pc = "positions"
    /\ zscore = C2_Fixture
    /\ entry_threshold = 15
    /\ exit_threshold = 5

\* C2 (as claimed): z = [0, 2.0, 0.3, 0.0] with entry 1.5 and exit 0.5 yields
\* [Flat, ShortSpread, ShortSpread, Flat].
C2_Original == C2_Case => signals = <<Flat, -1, -1, Flat>>

\* C2 (amended): z = [0, 2.0, 0.3, 0.0] with entry 1.5 and exit 0.5 yields
\* [Flat, ShortSpread, Flat, Flat]: 0.3 is already inside the exit band.
C2_Amended == C2_Case => signals = <<Flat, -1, Flat, Flat>>

\* C2 witness: the scan of the fixture has returned
C2_Witness == C2_Case /\ Len(signals) = 4 /\ signals[2] = -1

\* C10: on a missing z-score the output is Flat and the carried state is left
\* unchanged; the next non-missing z-score is evaluated from the carried
\* state (held unless |z| < exit), not from Flat.
C10_MissingKeepsState ==
    /\ [][(LoopBody /\ IsNa(zscore[i])) =>
            (signals'[i] = Flat /\ position' = position)]_vars
    /\ [][(LoopBody /\ i > 1 /\ IsNa(zscore[i - 1]) /\ ~IsNa(zscore[i])
              /\ position # Flat) =>
            /\ position' = (IF Abs(LiteralOf(zscore[i])) < exit_threshold
                            THEN Flat ELSE position)
            /\ signals'[i] = position']_vars

\* C10 witness: a position held across a missing z-score
C10_Witness ==
    /\ pc = "positions"
    /\ \E j \in 1..(Len(signals) - 2) :
          /\ signals[j] # Flat
          /\ IsNa(zscore[j + 1]) /\ signals[j + 1] = Flat
          /\ ~IsNa(zscore[j + 2]) /\ signals[j + 2] = signals[j]

ZscoreComputed == pc \in {"signals", "positions", "backtest", "done"}

\* C3: the first window - 1 entries of the z-score series are missing, the
\* output is Flat at each of them, and the carried state is Flat until the
\* window is full.
C3_WarmUp ==
    /\ ZscoreComputed =>
          /\ Len(zscore) = Len(prices)
          /\ \A t \in 1..Len(zscore) : t <= window - 1 => IsNa(zscore[t])
    /\ \A t \in 1..Len(signals) : t <= window - 1 => signals[t] = Flat
    /\ (pc = "signals" /\ i <= window) => position = Flat

\* C3 witness: a position opened at the first row with a full window
C3_Witness ==
    /\ pc = "done"
    /\ window = 3
    /\ Len(signals) >= window
    /\ signals[window] # Flat
    /\ \A t \in 1..(window - 1) : IsNa(zscore[t]) /\ signals[t] = Flat

\* the second run of a shocked panel has produced its signals
C4_Case == base.kind = "shock" /\ base.error = "" /\ pc = "done"

\* C4 (as claimed): a price shock at t leaves the position output at t as it
\* was; it may change positions only from t + 1 onward.
C4_Original == C4_Case => signals[base.at] = base.signals[base.at]

\* C4 (amended): a price shock at t leaves the position output at every
\* timestamp before t as it was; it may change positions from t onward.
C4_Amended ==
    (base.kind = "shock" /\ base.error = "") =>
        \A t \in 1..Len(signals) : t < base.at => signals[t] = base.signals[t]

\* C4 witness: a shock that changed the position at t and none before, after
\* an open position
C4_Witness ==
    /\ C4_Case
    /\ signals[base.at] # base.signals[base.at]
    /\ \E t \in 1..(base.at - 1) : signals[t] # Flat
    /\ \A t \in 1..(base.at - 1) : signals[t] = base.signals[t]

\* C5: where the position output is not Flat the weights 0.5 * signal and
\* -0.5 * signal give net exposure 0 and gross exposure 1.0; where it is Flat
\* both exposures are 0.
C5_Neutrality ==
    pc = "done" =>
        \A t \in 1..Len(signals) :
            /\ 2 * positions[t][1] = signals[t] * Scale
            /\ 2 * positions[t][2] = -signals[t] * Scale
            /\ results.net_exposure[t] = Val(0)
            /\ results.gross_exposure[t] = Val(IF signals[t] # Flat THEN Scale ELSE 0)

\* C5 witness: a finished run with both an open and a flat row
C5_Witness ==
    /\ pc = "done"
    /\ \E t \in 1..Len(signals) : signals[t] # Flat
    /\ \E t \in 1..Len(signals) : signals[t] = Flat

SumVals(s) == SumSeq([t \in 1..Len(s) |-> s[t][1]])

Terminal(res) == res.equity_curve[Len(res.equity_curve)][1]

\* the same positions have been priced at tc_bps and at 2 * tc_bps
C6_Case == base.kind = "cost" /\ pc = "done"

C6_CostsDoubled ==
    SumVals(results.transaction_costs) = 2 * SumVals(base.results.transaction_costs)

C6_FactorsPositive == \A t \in 1..Len(results.returns) : Scale + results.returns[t][1] > 0

C7_Case ==
    /\ base.kind = "none"
    /\ pc \in {"done", "failed"}
    /\ Len(prices) > 0
    /\ window > Len(prices)

\* C7 (as claimed): when the rolling window is longer than the sample,
\* run_backtest_safe fails with "No valid returns generated" and returns no
\* result.
C7_Original ==
    C7_Case => (pc = "failed" /\ error = "No valid returns generated")

\* C7 (amended): run_backtest_safe fails with "No valid returns generated"
\* only for a panel without rows; when the rolling window is longer than a
\* non-empty sample every position is Flat, every net return is 0 and not
\* missing, and a result is returned.
C7_Amended ==
    /\ error = "No valid returns generated" => Len(prices) = 0
    /\ C7_Case =>
          /\ pc = "done"
          /\ error = ""
          /\ \A t \in 1..Len(prices) : IsNa(zscore[t]) /\ signals[t] = Flat
          /\ results.returns = [t \in 1..Len(prices) |-> Val(0)]
          /\ results.trading_days = Len(prices)

\* C7 witness: a result returned for a sample shorter than the window
C7_Witness == C7_Case /\ pc = "done" /\ results.trading_days = Len(prices)

NoDataMessage == "No data returned. Please check tickers and date range."

C8_SomeEmpty == \E k \in 1..3 : histories[k].last < histories[k].first

\* the dates on which every ticker has a Close
C8_CommonRows ==
    Cardinality({d \in 1..(2 * MinRows + 2) :
                    \A k \in 1..3 : /\ histories[k].first <= d
                                    /\ d <= histories[k].last
                                    /\ d # histories[k].gap})

C8_Case == pc # "fetch" /\ ~fetchRaises

\* C8 (as claimed): "No data returned" both when a history is empty and when
\* none is empty but no date survives the intersection; "Insufficient data"
\* only for 1..99 aligned rows; exactly 100 rows succeed.
C8_Original ==
    C8_Case =>
        /\ (C8_SomeEmpty \/ C8_CommonRows = 0) => error = NoDataMessage
        /\ error = "Insufficient data" => (1 <= C8_CommonRows /\ C8_CommonRows < MinRows)
        /\ (~C8_SomeEmpty /\ C8_CommonRows = MinRows) => (error = "" /\ pc = "zscore")

\* C8 (amended): "No data returned" exactly when some history is empty; when
\* none is empty, "Insufficient data" exactly when fewer than 100 aligned
\* rows remain, zero included; 100 rows or more succeed.
C8_Amended ==
    C8_Case =>
        /\ error = NoDataMessage <=> C8_SomeEmpty
        /\ error = "Insufficient data" <=> (~C8_SomeEmpty /\ C8_CommonRows < MinRows)
        /\ (~C8_SomeEmpty /\ C8_CommonRows >= MinRows) =>
              (error = "" /\ pc = "zscore" /\ Len(prices) = C8_CommonRows)

\* C8 witness: no history is empty, no date is common to all, and the failure
\* is "Insufficient data"
C8_Witness ==
    /\ C8_Case
    /\ ~C8_SomeEmpty
    /\ C8_CommonRows = 0
    /\ pc = "failed"
    /\ error = "Insufficient data"

\* benchmark returns exist on rows 2..n when the benchmark is a column of the
\* panel, on which every net return is present
C9_Common == IF benchSource = "panel" THEN Len(prices) - 1 ELSE 0

C9_X == [k \in 1..C9_Common |-> BigOfInt(results.returns[k + 1][1])]

C9_Y == [k \in 1..C9_Common |->
            BigOfInt(((bench[k + 1] - bench[k]) * Scale) \div bench[k])]

\* sum of (m a - sum a)(m b - sum b) = m^2 (m - 1) cov(a, b)
C9_Deviations(a) ==
    [k \in 1..Len(a) |-> BigSub(BigMul(BigOfInt(Len(a)), a[k]), BigSum(a))]

C9_Cov == BigSum(BigProducts(C9_Deviations(C9_X), C9_Deviations(C9_Y)))

C9_Var == BigSum(BigProducts(C9_Deviations(C9_Y), C9_Deviations(C9_Y)))

\* beta = cov / var, as an equation between fractions
C9_BetaIsCovOverVar ==
    BigMul(results.beta.num, C9_Var) = BigMul(C9_Cov, results.beta.den)

C9_Defaults ==
    /\ BigSign(results.beta.num) = 0
    /\ results.correlation = CorrelationDefault

\* C9 (as claimed): beta and correlation take the 0 default exactly when
\* fewer than 20 dates are common; with 20 or more common dates and positive
\* benchmark variance beta is cov / var.
C9_Original ==
    pc = "done" =>
        /\ C9_Common < MinCommon => C9_Defaults
        /\ (C9_Common >= MinCommon /\ BigSign(C9_Var) > 0) => C9_BetaIsCovOverVar

\* C9 (amended): no failure is returned, beta and correlation take the 0
\* default whenever at most 20 dates are common; with 21 or more common dates
\* and positive benchmark variance beta is cov / var.
C9_Amended ==
    /\ pc # "failed"
    /\ pc = "done" =>
          /\ error = ""
          /\ C9_Common <= MinCommon => C9_Defaults
          /\ (C9_Common > MinCommon /\ BigSign(C9_Var) > 0) => C9_BetaIsCovOverVar

\* C9 witness: 21 common dates and a beta that is not 0
C9_Witness ==
    /\ pc = "done"
    /\ C9_Common = MinCommon + 1
    /\ BigSign(C9_Var) > 0
    /\ BigSign(results.beta.num) # 0
    /\ C9_BetaIsCovOverVar

ZeroHorizonMessage == "Insufficient data for annualization"

\* run_backtest_safe has returned
C12_Case == pc \in {"done", "failed"}

\* len(returns_clean) of the run that has just returned
C12_Days == TradingDays(prices, positions, tc_bps)

\* C12 (as claimed): whenever the trading-day count gives zero years
\* (trading_days / 252 = 0), run_backtest_safe fails with "Insufficient data
\* for annualization".
C12_Original ==
    (C12_Case /\ Years(C12_Days).num = 0) =>
        (pc = "failed" /\ error = ZeroHorizonMessage)

\* C12 (amended): trading_days / 252 is zero only for zero trading days, and
\* then run_backtest_safe has already failed with "No valid returns
\* generated"; every run with at least one trading day has years > 0 and
\* returns a result, so "Insufficient data for annualization" is never
\* returned.
C12_Amended ==
    C12_Case =>
        /\ error # ZeroHorizonMessage
        /\ C12_Days = 0 => (pc = "failed" /\ error = "No valid returns generated")
        /\ C12_Days > 0 =>
              /\ pc = "done"
              /\ error = ""
              /\ results.trading_days = C12_Days
              /\ Years(results.trading_days).num > 0

\* C12 witness: a run with zero trading days, failed as an empty return series
C12_Witness ==
    /\ C12_Case
    /\ C12_Days = 0
    /\ Years(C12_Days).num = 0
    /\ error = "No valid returns generated"

\* generate_signals_safe has been called by main
C11_Case == pc \in {"signals", "positions", "backtest"}

\* C11 (as claimed): whenever main reaches generate_signals_safe the
\* thresholds satisfy entry_threshold > 0 and 0 <= exit_threshold <
\* entry_threshold; a configuration with exit_threshold >= entry_threshold is
\* rejected before the state machine runs.
C11_Original ==
    C11_Case =>
        /\ entry_threshold > 0
        /\ 0 <= exit_threshold
        /\ exit_threshold < entry_threshold
====
